---- MODULE Spec2Model ----
(***************************************************************************)
(* Conditional logic engine of the form builder (shared logic module):     *)
(* groupLogicUnitsByField, getVisibleFieldIds, getLogicUnitPreventingSubmit *)
(* and isConditionFulfilled, modelled as a state machine over one form and *)
(* one submission.                                                         *)
(*                                                                         *)
(* JavaScript values are tagged records.  A string is the sequence of its  *)
(* characters, so that String(), Number(), startsWith() and sort() are     *)
(* computed and not assumed.  Numbers are the naturals plus NaN; signs,    *)
(* fractions and exponents are outside the model's value universe.         *)
(***************************************************************************)
EXTENDS Integers, Sequences, FiniteSets, TLC

VARIABLES
  form,                      \* the IFormDocument: _id, form_fields, form_logics
  submission,                \* LogicFieldSchemaOrResponse[]
  pc,                        \* position of the caller / of getVisibleFieldIds
  logicUnitsGroupedByField,  \* GroupedLogic built by groupLogicUnitsByField
  infoLog,                   \* number of console.info events emitted so far
  visibleFieldIds,           \* the FieldIdSet under construction
  changesMade,               \* the while loop's flag
  fieldIdx,                  \* position of forEach inside the current sweep
  sweeps,                    \* number of sweeps started (saturating counter)
  gateArg,                   \* optional visibleFieldIds argument of the gate
  preventingUnit,            \* result of getLogicUnitPreventingSubmit
  fulfilled,                 \* <<result>> of the last isConditionFulfilled call
                             \* made on the submitted record, <<>> if none
  calls,                     \* number of getVisibleFieldIds calls returned to
                             \* the caller that calls again
  firstCall,                 \* <<[form, submission, visible]>> of the first
                             \* of those calls, <<>> before it returned
  otherBetween,              \* a call on other inputs returned since then
  sweepOfField,              \* field id -> the sweep in which it was added
  compared,                  \* the second form of a comparing caller and the
                             \* set getVisibleFieldIds returned for it
  evals                      \* the evaluations of a caller that interleaves
                             \* them: each one's answers, locals and result

vars == <<form, submission, pc, logicUnitsGroupedByField, infoLog,
          visibleFieldIds, changesMade, fieldIdx, sweeps, gateArg,
          preventingUnit, fulfilled, calls, firstCall, otherBetween,
          sweepOfField, compared, evals>>

\* What the caller that calls again remembers of its earlier calls.
callVars == <<calls, firstCall, otherBetween>>

\* What the comparing and the interleaving callers hold.
sideVars == <<compared, evals>>

(***************************************************************************)
(* JavaScript values                                                       *)
(***************************************************************************)
JStr(s) == [t |-> "string", v |-> s]
JNum(n) == [t |-> "number", nan |-> FALSE, v |-> n]
JNaN == [t |-> "number", nan |-> TRUE, v |-> 0]
JArr(a) == [t |-> "array", v |-> a]
JCheckbox(opts, oth) == [t |-> "object", options |-> opts, others |-> oth]
JNull == [t |-> "null"]
JUndefined == [t |-> "undefined"]

\* Characters of the value universe in UTF-16 code unit order.
Alphabet ==
  <<" ", "0", "1", "2", "3", "4", "5", "6", "7", "8", "9", ":", "@",
    "A", "B", "N", "O", "Y", "[", "]", "a", "b", "c", "d", "e", "f", "h", "i",
    "j", "l", "n", "o", "p", "r", "s", "t", "u", "x">>

CharCode(c) == CHOOSE i \in 1..Len(Alphabet) : Alphabet[i] = c

Digits == <<"0", "1", "2", "3", "4", "5", "6", "7", "8", "9">>

IsDigit(c) == \E i \in 1..10 : Digits[i] = c

DigitValue(c) == (CHOOSE i \in 1..10 : Digits[i] = c) - 1

\* Number.prototype.toString for a natural number.
RECURSIVE NatToString(_)
NatToString(n) ==
  IF n < 10 THEN <<Digits[n + 1]>>
  ELSE NatToString(n \div 10) \o <<Digits[(n % 10) + 1]>>

RECURSIVE JoinStrings(_)
JoinStrings(parts) ==
  IF Len(parts) = 0 THEN <<>>
  ELSE IF Len(parts) = 1 THEN parts[1]
  ELSE parts[1] \o <<",">> \o JoinStrings(Tail(parts))

\* String(x)
RECURSIVE ToStr(_)
ToStr(x) ==
  CASE x.t = "string" -> x.v
    [] x.t = "number" -> IF x.nan THEN <<"N", "a", "N">> ELSE NatToString(x.v)
    [] x.t = "array" ->
         JoinStrings([i \in 1..Len(x.v) |->
                        IF x.v[i].t \in {"null", "undefined"} THEN <<>>
                        ELSE ToStr(x.v[i])])
    [] x.t = "object" ->
         <<"[", "o", "b", "j", "e", "c", "t", " ", "O", "b", "j", "e", "c",
           "t", "]">>
    [] x.t = "null" -> <<"n", "u", "l", "l">>
    [] x.t = "undefined" ->
         <<"u", "n", "d", "e", "f", "i", "n", "e", "d">>

RECURSIVE TrimLeft(_)
TrimLeft(s) ==
  IF Len(s) > 0 /\ s[1] = " " THEN TrimLeft(Tail(s)) ELSE s

RECURSIVE TrimRight(_)
TrimRight(s) ==
  IF Len(s) > 0 /\ s[Len(s)] = " " THEN TrimRight(SubSeq(s, 1, Len(s) - 1))
  ELSE s

RECURSIVE DigitsToNat(_)
DigitsToNat(s) ==
  IF Len(s) = 0 THEN 0
  ELSE 10 * DigitsToNat(SubSeq(s, 1, Len(s) - 1)) + DigitValue(s[Len(s)])

\* Number(s) for a string: whitespace is trimmed, "" is 0, a run of decimal
\* digits is its value, anything else (in the universe) is NaN.
StringToNumber(s) ==
  LET trimmed == TrimRight(TrimLeft(s)) IN
  IF \A i \in 1..Len(trimmed) : IsDigit(trimmed[i])
  THEN JNum(DigitsToNat(trimmed))
  ELSE JNaN

\* Number(x)
ToNumber(x) ==
  CASE x.t = "number" -> x
    [] x.t = "string" -> StringToNumber(x.v)
    [] x.t = "array" -> StringToNumber(ToStr(x))
    [] x.t = "null" -> JNum(0)
    [] OTHER -> JNaN

\* a <= b on numbers: false as soon as one side is NaN.
NumLte(a, b) == ~a.nan /\ ~b.nan /\ a.v <= b.v

\* Faulty variant, for comparison: NaN is not told apart from a number.
NumGte_IgnoringNaN(a, b) == a.v >= b.v

NumGte(a, b) == ~a.nan /\ ~b.nan /\ a.v >= b.v

\* Faulty variant, for comparison: the whole string must be the prefix.
StartsWith_Exact(s, prefix) == s = prefix

\* String.prototype.startsWith
StartsWith(s, prefix) ==
  Len(s) >= Len(prefix) /\ SubSeq(s, 1, Len(prefix)) = prefix

\* Comparison of two strings by UTF-16 code units (the default of sort()).
RECURSIVE StrLess(_, _)
StrLess(a, b) ==
  IF Len(b) = 0 THEN FALSE
  ELSE IF Len(a) = 0 THEN TRUE
  ELSE IF CharCode(a[1]) # CharCode(b[1]) THEN CharCode(a[1]) < CharCode(b[1])
  ELSE StrLess(Tail(a), Tail(b))

RECURSIVE InsertSorted(_, _)
InsertSorted(s, sorted) ==
  IF Len(sorted) = 0 THEN <<s>>
  ELSE IF StrLess(s, sorted[1]) THEN <<s>> \o sorted
  ELSE <<sorted[1]>> \o InsertSorted(s, Tail(sorted))

\* Array.prototype.sort on an array of strings.
RECURSIVE SortStrings(_)
SortStrings(a) ==
  IF Len(a) = 0 THEN <<>>
  ELSE InsertSorted(a[Len(a)], SortStrings(SubSeq(a, 1, Len(a) - 1)))

\* Faulty variant, for comparison: only strings can be empty.
IsEmpty_StringsOnly(x) ==
  CASE x.t = "string" -> Len(x.v) = 0
    [] x.t \in {"object", "array"} -> FALSE
    [] OTHER -> TRUE

\* lodash isEmpty, for the values a current value can be.
IsEmpty(x) ==
  CASE x.t \in {"string", "array"} -> Len(x.v) = 0
    [] x.t = "object" -> FALSE
    [] OTHER -> TRUE

(***************************************************************************)
(* Static tables and type guards                                           *)
(***************************************************************************)
\* LOGIC_MAP: field type -> applicable logic states.
LOGIC_MAP ==
  [ft \in {"Checkbox", "Dropdown", "Number", "Decimal", "Rating", "YesNo",
           "Radio"} |->
     CASE ft = "Checkbox" -> <<"AnyOf">>
       [] ft \in {"Dropdown", "Radio"} -> <<"Equal", "Either">>
       [] ft \in {"Number", "Decimal", "Rating"} -> <<"Equal", "Lte", "Gte">>
       [] ft = "YesNo" -> <<"Equal">>]

isCheckboxConditionValue(value) ==
  /\ value.t = "object"
  /\ {"options", "others"} \subseteq DOMAIN value

isLogicCheckboxCondition(condition) ==
  /\ condition.value.t = "array"
  /\ \A i \in 1..Len(condition.value.v) :
       isCheckboxConditionValue(condition.value.v[i])

isShowFieldsLogic(formLogic) == formLogic.logicType = "ShowFields"

isPreventSubmitLogic(formLogic) == formLogic.logicType = "PreventSubmit"

\* Faulty variant, for comparison: the id of the last field is left out.
FormFieldIds_WithoutLast(f) ==
  {f.form_fields[i]._id : i \in 1..(Len(f.form_fields) - 1)}

\* new Set(form.form_fields?.map((field) => String(field._id)))
FormFieldIds(f) == {f.form_fields[i]._id : i \in 1..Len(f.form_fields)}

\* Faulty variant, for comparison: "some" in place of "every".
allConditionsExist_Some(conditions, formFieldIds) ==
  \E i \in 1..Len(conditions) : conditions[i].field \in formFieldIds

allConditionsExist(conditions, formFieldIds) ==
  \A i \in 1..Len(conditions) : conditions[i].field \in formFieldIds

(***************************************************************************)
(* Condition evaluator                                                     *)
(***************************************************************************)
\* Array.prototype.find: index of the first matching record, 0 for undefined.
findConditionField(sub, fieldId) ==
  IF \E i \in 1..Len(sub) : sub[i]._id = fieldId
  THEN CHOOSE i \in 1..Len(sub) :
         /\ sub[i]._id = fieldId
         /\ \A j \in 1..(i - 1) : sub[j]._id # fieldId
  ELSE 0

\* Faulty variant, for comparison: only the answer attribute is read.
getCurrentValue_AnswerOnly(field) ==
  IF "answer" \in DOMAIN field THEN field.answer ELSE JNull

getCurrentValue(field) ==
  IF "fieldValue" \in DOMAIN field THEN field.fieldValue
  ELSE IF "answer" \in DOMAIN field THEN field.answer
  ELSE IF "answerArray" \in DOMAIN field THEN field.answerArray
  ELSE JNull

isLogicField(field) == field.fieldType \in DOMAIN LOGIC_MAP

\* ([] as unknown[]).concat(condition.value).map(String)
ConditionValues(condition) ==
  LET spread == IF condition.value.t = "array" THEN condition.value.v
                ELSE <<condition.value>>
  IN [i \in 1..Len(spread) |-> ToStr(spread[i])]

\* Every reordering of a list.
Reorderings(a) ==
  {[i \in 1..Len(a) |-> a[p[i]]] : p \in Permutations(1..Len(a))}

SeqContains(s, x) == \E i \in 1..Len(s) : s[i] = x

OthersLiteral == <<"O", "t", "h", "e", "r", "s">>

OthersPrefix == <<"O", "t", "h", "e", "r", "s", ":", " ">>

RadioButtonOthers ==
  <<"r", "a", "d", "i", "o", "B", "u", "t", "t", "o", "n", "O", "t", "h", "e",
    "r", "s">>

\* Faulty variant, for comparison: the options are compared as they come.
SortedCheckboxValue_Unsorted(obj) == obj

SortedCheckboxValue(obj) ==
  [obj EXCEPT !.options = SortStrings(obj.options)]

isConditionFulfilled(field, condition) ==
  IF ~isLogicField(field) THEN FALSE
  ELSE
    LET currentValue == getCurrentValue(field) IN
    IF \/ currentValue.t \in {"null", "undefined"}
       \/ (currentValue.t # "number" /\ IsEmpty(currentValue))
    THEN FALSE
    ELSE IF condition.state \in {"Equal", "Either"} THEN
      LET conditionValues == ConditionValues(condition)
          current == ToStr(currentValue)
      IN IF SeqContains(conditionValues, OthersLiteral)
         THEN LET pushed == IF field.fieldType = "Radio"
                            THEN Append(conditionValues, RadioButtonOthers)
                            ELSE conditionValues
              IN SeqContains(pushed, current)
                   \/ StartsWith(current, OthersPrefix)
         ELSE SeqContains(conditionValues, current)
    ELSE IF condition.state = "AnyOf" THEN
      IF /\ field.fieldType = "Checkbox"
         /\ isLogicCheckboxCondition(condition)
         /\ isCheckboxConditionValue(currentValue)
      THEN LET sortedCurrentValue == SortedCheckboxValue(currentValue)
           IN \E i \in 1..Len(condition.value.v) :
                SortedCheckboxValue(condition.value.v[i]) = sortedCurrentValue
      ELSE FALSE
    ELSE IF condition.state = "Lte" THEN
      NumLte(ToNumber(currentValue), ToNumber(condition.value))
    ELSE IF condition.state = "Gte" THEN
      NumGte(ToNumber(currentValue), ToNumber(condition.value))
    ELSE FALSE

\* One condition of an AND-group: the subject has a record in the submission,
\* is in the visible set, and its value fulfils the condition.
ConditionHolds(sub, condition, visible) ==
  LET k == findConditionField(sub, condition.field) IN
  /\ k # 0
  /\ sub[k]._id \in visible
  /\ isConditionFulfilled(sub[k], condition)

\* Faulty variant, for comparison: the visibility of the subject is not checked.
isLogicUnitSatisfied_IgnoringVisibility(sub, logicUnit, visible) ==
  \A i \in 1..Len(logicUnit) :
    LET k == findConditionField(sub, logicUnit[i].field) IN
    k # 0 /\ isConditionFulfilled(sub[k], logicUnit[i])

\* Faulty variant, for comparison: a unit without conditions is never
\* satisfied.
isLogicUnitSatisfied_NonEmpty(sub, logicUnit, visible) ==
  /\ Len(logicUnit) > 0
  /\ \A i \in 1..Len(logicUnit) : ConditionHolds(sub, logicUnit[i], visible)

isLogicUnitSatisfied(sub, logicUnit, visible) ==
  \A i \in 1..Len(logicUnit) : ConditionHolds(sub, logicUnit[i], visible)

(***************************************************************************)
(* Logic grouping index                                                    *)
(***************************************************************************)
\* Faulty variant, for comparison: the first unknown show target ends the loop.
RECURSIVE AddToShowTargets_StopAtUnknown(_, _, _, _)
AddToShowTargets_StopAtUnknown(grouped, show, conditions, formFieldIds) ==
  IF Len(show) = 0 \/ show[1] \notin formFieldIds THEN grouped
  ELSE
    LET fieldId == show[1]
        next == [k \in DOMAIN grouped \cup {fieldId} |->
                   IF k = fieldId
                   THEN Append(IF k \in DOMAIN grouped THEN grouped[k]
                               ELSE <<>>, conditions)
                   ELSE grouped[k]]
    IN AddToShowTargets_StopAtUnknown(next, Tail(show), conditions,
                                      formFieldIds)

\* logicUnit.show.forEach(...): append the unit's conditions to the entry of
\* every show target that is a form field.
RECURSIVE AddToShowTargets(_, _, _, _)
AddToShowTargets(grouped, show, conditions, formFieldIds) ==
  IF Len(show) = 0 THEN grouped
  ELSE
    LET fieldId == show[1]
        next ==
          IF fieldId \in formFieldIds
          THEN [k \in DOMAIN grouped \cup {fieldId} |->
                  IF k = fieldId
                  THEN Append(IF k \in DOMAIN grouped THEN grouped[k]
                              ELSE <<>>, conditions)
                  ELSE grouped[k]]
          ELSE grouped
    IN AddToShowTargets(next, Tail(show), conditions, formFieldIds)

\* formLogics.forEach(...): acc is [grouped, hasInvalidLogic].
RECURSIVE GroupUnits(_, _, _)
GroupUnits(formLogics, formFieldIds, acc) ==
  IF Len(formLogics) = 0 THEN acc
  ELSE
    LET logicUnit == formLogics[1]
        next ==
          IF allConditionsExist(logicUnit.conditions, formFieldIds)
          THEN [acc EXCEPT !.grouped =
                  AddToShowTargets(acc.grouped, logicUnit.show,
                                   logicUnit.conditions, formFieldIds)]
          ELSE [acc EXCEPT !.hasInvalidLogic = TRUE]
    IN GroupUnits(Tail(formLogics), formFieldIds, next)

\* Truthiness of form._id ("" stands for a form without an id).
Truthy(id) == id # ""

\* Faulty variant, for comparison: one console.info per dropped unit.
groupLogicUnitsByField_PerUnit(f) ==
  LET formLogics == SelectSeq(f.form_logics, isShowFieldsLogic)
      formFieldIds == {f.form_fields[i]._id : i \in 1..Len(f.form_fields)}
      built == GroupUnits(formLogics, formFieldIds,
                          [grouped |-> <<>>, hasInvalidLogic |-> FALSE])
  IN [grouped |-> built.grouped,
      infos |-> IF f._id # ""
                THEN Cardinality({i \in 1..Len(formLogics) :
                       ~allConditionsExist(formLogics[i].conditions,
                                           formFieldIds)})
                ELSE 0]

\* groupLogicUnitsByField: the index, and the number of console.info calls.
groupLogicUnitsByField(f) ==
  LET formLogics == SelectSeq(f.form_logics, isShowFieldsLogic)
      built == GroupUnits(formLogics, FormFieldIds(f),
                          [grouped |-> <<>>, hasInvalidLogic |-> FALSE])
  IN [grouped |-> built.grouped,
      infos |-> IF built.hasInvalidLogic /\ Truthy(f._id) THEN 1 ELSE 0]

(***************************************************************************)
(* Visibility resolver                                                     *)
(***************************************************************************)
\* Faulty variant, for comparison: the field is added but changesMade is not set.
VisitField_NoChangeFlag(sub, grouped, field, st) ==
  LET id == field._id IN
  IF /\ id \notin st.visible
     /\ \/ id \notin DOMAIN grouped
        \/ \E i \in 1..Len(grouped[id]) :
             \A j \in 1..Len(grouped[id][i]) :
               ConditionHolds(sub, grouped[id][i][j], st.visible)
  THEN [visible |-> st.visible \cup {id}, changesMade |-> st.changesMade]
  ELSE st

\* Faulty variant, for comparison: a field without logic units is not treated as visible.
VisitField_RequiringUnits(sub, grouped, field, st) ==
  LET id == field._id IN
  IF /\ id \notin st.visible
     /\ id \in DOMAIN grouped
     /\ \E i \in 1..Len(grouped[id]) :
          \A j \in 1..Len(grouped[id][i]) :
            ConditionHolds(sub, grouped[id][i][j], st.visible)
  THEN [visible |-> st.visible \cup {id}, changesMade |-> TRUE]
  ELSE st

\* Faulty variant, for comparison: a field that is already visible is added again.
VisitField_Revisit(sub, grouped, field, st) ==
  LET id == field._id IN
  IF \/ id \notin DOMAIN grouped
     \/ \E i \in 1..Len(grouped[id]) :
          \A j \in 1..Len(grouped[id][i]) :
            ConditionHolds(sub, grouped[id][i][j], st.visible)
  THEN [visible |-> st.visible \cup {id}, changesMade |-> TRUE]
  ELSE st

\* Faulty variant, for comparison: the set of the previous call is kept.
NewFieldIdSet_Kept(previous) == previous

\* const visibleFieldIds: FieldIdSet = new Set(): a fresh set in every call,
\* whatever the previous call left.
NewFieldIdSet(previous) == {}

\* Faulty variant, for comparison: only the first AND-group of a field counts.
VisitField_FirstGroupOnly(sub, grouped, field, st) ==
  LET id == field._id IN
  IF /\ id \notin st.visible
     /\ \/ id \notin DOMAIN grouped
        \/ \A j \in 1..Len(grouped[id][1]) :
             ConditionHolds(sub, grouped[id][1][j], st.visible)
  THEN [visible |-> st.visible \cup {id}, changesMade |-> TRUE]
  ELSE st

\* The body of form.form_fields.forEach: st is [visible, changesMade].
VisitField(sub, grouped, field, st) ==
  LET id == field._id IN
  IF /\ id \notin st.visible
     /\ \/ id \notin DOMAIN grouped
        \/ \E i \in 1..Len(grouped[id]) :
             isLogicUnitSatisfied(sub, grouped[id][i], st.visible)
  THEN [visible |-> st.visible \cup {id}, changesMade |-> TRUE]
  ELSE st

\* One forEach over the fields from position i on.
RECURSIVE SweepFrom(_, _, _, _, _)
SweepFrom(sub, grouped, fields, i, st) ==
  IF i > Len(fields) THEN st
  ELSE SweepFrom(sub, grouped, fields, i + 1,
                 VisitField(sub, grouped, fields[i], st))

\* Faulty variant, for comparison: one sweep only.
RunSweeps_Once(sub, grouped, fields, st) ==
  SweepFrom(sub, grouped, fields, 1, [st EXCEPT !.changesMade = FALSE]).visible

\* while (changesMade) { changesMade = false; forEach ... }
RECURSIVE RunSweeps(_, _, _, _)
RunSweeps(sub, grouped, fields, st) ==
  IF st.changesMade
  THEN RunSweeps(sub, grouped, fields,
                 SweepFrom(sub, grouped, fields, 1,
                           [st EXCEPT !.changesMade = FALSE]))
  ELSE st.visible

getVisibleFieldIds(sub, f) ==
  RunSweeps(sub, groupLogicUnitsByField(f).grouped, f.form_fields,
            [visible |-> {}, changesMade |-> TRUE])

(***************************************************************************)
(* Submission gate                                                         *)
(***************************************************************************)
\* The units kept by form.form_logics.filter(...), as references into
\* form_logics (their positions), in authoring order.
RECURSIVE FilterPreventSubmit(_, _, _)
FilterPreventSubmit(f, formFieldIds, i) ==
  IF i > Len(f.form_logics) THEN <<>>
  ELSE (IF /\ isPreventSubmitLogic(f.form_logics[i])
           /\ allConditionsExist(f.form_logics[i].conditions, formFieldIds)
        THEN <<i>> ELSE <<>>)
       \o FilterPreventSubmit(f, formFieldIds, i + 1)

getPreventSubmitConditions(f) == FilterPreventSubmit(f, FormFieldIds(f), 1)

\* Faulty variant, for comparison: the last satisfied unit is returned instead of the first.
RECURSIVE FindSatisfied_Last(_, _, _, _)
FindSatisfied_Last(sub, f, kept, visible) ==
  IF Len(kept) = 0 THEN 0
  ELSE LET later == FindSatisfied_Last(sub, f, Tail(kept), visible) IN
       IF later # 0 THEN later
       ELSE IF \A j \in 1..Len(f.form_logics[kept[1]].conditions) :
                 ConditionHolds(sub, f.form_logics[kept[1]].conditions[j],
                                visible)
       THEN kept[1]
       ELSE 0

\* Array.prototype.find over the kept units: the first satisfied unit's
\* position in form_logics, 0 for undefined.
RECURSIVE FindSatisfied(_, _, _, _)
FindSatisfied(sub, f, kept, visible) ==
  IF Len(kept) = 0 THEN 0
  ELSE IF isLogicUnitSatisfied(sub, f.form_logics[kept[1]].conditions, visible)
  THEN kept[1]
  ELSE FindSatisfied(sub, f, Tail(kept), visible)

\* Faulty variant, for comparison: an omitted visible set is taken to be every field of the form.
DefinedVisibleFieldIds_AllFields(sub, f, arg) ==
  IF arg = <<>> THEN FormFieldIds(f) ELSE arg[1]

\* visibleFieldIds ?? getVisibleFieldIds(submission, form); arg is <<>> when
\* the argument is omitted and <<set>> when it is given.
DefinedVisibleFieldIds(sub, f, arg) ==
  IF arg = <<>> THEN getVisibleFieldIds(sub, f) ELSE arg[1]

getLogicUnitPreventingSubmit(sub, f, arg) ==
  FindSatisfied(sub, f, getPreventSubmitConditions(f),
                DefinedVisibleFieldIds(sub, f, arg))

(***************************************************************************)
(* Inputs: the forms and submissions the model ranges over                 *)
(***************************************************************************)
MaxUnits == 2

MaxSweepCount == 6

OptionA == <<"O", "p", "t", "i", "o", "n", " ", "A">>

FieldD1 == [_id |-> "d1", fieldType |-> "Dropdown"]

FieldE1 == [_id |-> "e1", fieldType |-> "Email"]

FieldN1 == [_id |-> "n1", fieldType |-> "Number"]

\* Two orders of the same three fields; "x" is an id of no form field.
FieldLists == {<<FieldD1, FieldE1, FieldN1>>, <<FieldE1, FieldN1, FieldD1>>}

CondD1 == [field |-> "d1", state |-> "Equal", value |-> JStr(OptionA)]

CondN1 == [field |-> "n1", state |-> "Gte", value |-> JNum(100)]

CondX == [field |-> "x", state |-> "Equal", value |-> JStr(OptionA)]

ConditionGroups ==
  {<<>>, <<CondD1>>, <<CondN1>>, <<CondD1, CondN1>>, <<CondD1, CondX>>}

ShowLists == {<<"d1">>, <<"e1">>, <<"n1">>, <<"x", "e1", "n1">>}

LogicUnits ==
  {[logicType |-> "ShowFields", conditions |-> c, show |-> sh] :
     c \in ConditionGroups, sh \in ShowLists}
  \cup {[logicType |-> "PreventSubmit", conditions |-> c] :
          c \in ConditionGroups}

LogicLists == UNION {[1..n -> LogicUnits] : n \in 0..MaxUnits}

\* Form documents that have an _id.
SavedForms ==
  {[_id |-> "form1", form_fields |-> fl, form_logics |-> ls] :
     fl \in FieldLists, ls \in LogicLists}

MaxDraftUnits == 1

\* Form objects whose _id is not set (formId is falsy).
DraftForms ==
  {[_id |-> "", form_fields |-> fl, form_logics |-> ls] :
     fl \in FieldLists,
     ls \in UNION {[1..n -> LogicUnits] : n \in 0..MaxDraftUnits}}

Forms == SavedForms \cup DraftForms

\* A finalized response of a field: [] when the field has none.
Responses(field, answers) ==
  {<<>>} \cup {<<[_id |-> field._id, fieldType |-> field.fieldType,
                  answer |-> JStr(a)]>> : a \in answers}

Submissions ==
  {d \o n :
     d \in Responses(FieldD1, {OptionA}),
     n \in Responses(FieldN1, {<<"5", "0">>, <<"1", "5", "0">>})}

(***************************************************************************)
(* The state machine: a caller picks a form and a submission and runs      *)
(* getVisibleFieldIds(submission, form) sweep by sweep, then calls         *)
(* getLogicUnitPreventingSubmit with or without a visible set.             *)
(***************************************************************************)
\* Before the call: no form has been passed yet.
NoForm == [_id |-> "", form_fields |-> <<>>, form_logics |-> <<>>]

Init ==
  /\ form = NoForm
  /\ submission = <<>>
  /\ pc = "idle"
  /\ logicUnitsGroupedByField = <<>>
  /\ infoLog = 0
  /\ visibleFieldIds = {}
  /\ changesMade = FALSE
  /\ fieldIdx = 0
  /\ sweeps = 0
  /\ gateArg = <<>>
  /\ preventingUnit = 0
  /\ fulfilled = <<>>
  /\ calls = 0
  /\ firstCall = <<>>
  /\ otherBetween = FALSE
  /\ sweepOfField = <<>>
  /\ compared = [how |-> "none", form |-> NoForm, visible |-> {}]
  /\ evals = <<>>

\* getVisibleFieldIds(sub, f) is entered; its lines before the loop build the
\* index and the empty set.
EnterGetVisibleFieldIds ==
  /\ pc = "idle"
  /\ \E f \in Forms, sub \in Submissions :
       LET built == groupLogicUnitsByField(f) IN
       /\ form' = f
       /\ submission' = sub
       /\ logicUnitsGroupedByField' = built.grouped
       /\ infoLog' = infoLog + built.infos
  /\ visibleFieldIds' = NewFieldIdSet(visibleFieldIds)
  /\ changesMade' = TRUE
  /\ pc' = "while"
  /\ UNCHANGED <<fieldIdx, sweeps, gateArg, preventingUnit, fulfilled>>
  /\ UNCHANGED callVars
  /\ UNCHANGED sideVars
  /\ sweepOfField' = <<>>

\* while (changesMade) holds: changesMade = false and forEach starts.
BeginSweep ==
  /\ pc = "while"
  /\ changesMade
  /\ changesMade' = FALSE
  /\ fieldIdx' = 1
  /\ sweeps' = IF sweeps < MaxSweepCount THEN sweeps + 1 ELSE sweeps
  /\ pc' = IF Len(form.form_fields) = 0 THEN "while" ELSE "forEach"
  /\ UNCHANGED <<form, submission, logicUnitsGroupedByField, infoLog,
                 visibleFieldIds, gateArg, preventingUnit, fulfilled>>
  /\ UNCHANGED callVars
  /\ UNCHANGED sideVars
  /\ UNCHANGED sweepOfField

\* One call of the forEach callback; after the last field the loop test is next.
VisitNextField ==
  /\ pc = "forEach"
  /\ LET st == VisitField(submission, logicUnitsGroupedByField,
                          form.form_fields[fieldIdx],
                          [visible |-> visibleFieldIds,
                           changesMade |-> changesMade])
     IN /\ visibleFieldIds' = st.visible
        /\ changesMade' = st.changesMade
  /\ fieldIdx' = fieldIdx + 1
  /\ pc' = IF fieldIdx = Len(form.form_fields) THEN "while" ELSE "forEach"
  /\ UNCHANGED <<form, submission, logicUnitsGroupedByField, infoLog, sweeps,
                 gateArg, preventingUnit, fulfilled>>
  /\ UNCHANGED callVars
  /\ UNCHANGED sideVars
  /\ sweepOfField' =
       IF visibleFieldIds' = visibleFieldIds THEN sweepOfField
       ELSE [id \in DOMAIN sweepOfField \cup {form.form_fields[fieldIdx]._id}
               |-> IF id \in DOMAIN sweepOfField THEN sweepOfField[id]
                   ELSE sweeps]

\* while (changesMade) fails: return visibleFieldIds.
ReturnVisible ==
  /\ pc = "while"
  /\ ~changesMade
  /\ pc' = "returned"
  /\ UNCHANGED <<form, submission, logicUnitsGroupedByField, infoLog,
                 visibleFieldIds, changesMade, fieldIdx, sweeps, gateArg,
                 preventingUnit, fulfilled>>
  /\ UNCHANGED callVars
  /\ UNCHANGED sideVars
  /\ UNCHANGED sweepOfField

\* getLogicUnitPreventingSubmit(submission, form): the visible set is
\* recomputed inside the call, index build and its console.info included.
GateOmitted ==
  /\ pc = "returned"
  /\ gateArg' = <<>>
  /\ preventingUnit' = getLogicUnitPreventingSubmit(submission, form, <<>>)
  /\ infoLog' = infoLog + groupLogicUnitsByField(form).infos
  /\ pc' = "done"
  /\ UNCHANGED <<form, submission, logicUnitsGroupedByField, visibleFieldIds,
                 changesMade, fieldIdx, sweeps, fulfilled>>
  /\ UNCHANGED callVars
  /\ UNCHANGED sideVars
  /\ UNCHANGED sweepOfField

\* getLogicUnitPreventingSubmit(submission, form, w) for a caller that passes
\* the set just computed, no field at all, or every field of the form.
GateSupplied ==
  /\ pc = "returned"
  /\ \E w \in {visibleFieldIds, {}, FormFieldIds(form)} :
       /\ gateArg' = <<w>>
       /\ preventingUnit' =
            getLogicUnitPreventingSubmit(submission, form, <<w>>)
  /\ pc' = "done"
  /\ UNCHANGED <<form, submission, logicUnitsGroupedByField, infoLog,
                 visibleFieldIds, changesMade, fieldIdx, sweeps, fulfilled>>
  /\ UNCHANGED callVars
  /\ UNCHANGED sideVars
  /\ UNCHANGED sweepOfField

Next ==
  \/ EnterGetVisibleFieldIds
  \/ BeginSweep
  \/ VisitNextField
  \/ ReturnVisible
  \/ GateOmitted
  \/ GateSupplied

Spec == Init /\ [][Next]_vars

\* getVisibleFieldIds is synchronous: once entered, its next step is taken.
\* The last conjunct is WF_vars(VisitNextField) with ENABLED written out: a
\* forEach step is possible exactly when pc = "forEach" (VisitStepEnabled).
FairSpec ==
  /\ Spec
  /\ WF_vars(BeginSweep)
  /\ WF_vars(ReturnVisible)
  /\ (<>[](pc = "forEach") => []<><<VisitNextField>>_vars)

\* The enabling condition used in FairSpec is the one of the forEach step.
VisitStepEnabled == (ENABLED <<VisitNextField>>_vars) = (pc = "forEach")

(***************************************************************************)
(* A second caller, for the condition evaluator: a form with one subject   *)
(* field s1 and one target t1, whose only ShowFields unit and only         *)
(* PreventSubmit unit carry the same single condition on s1.  The caller   *)
(* runs getVisibleFieldIds and then getLogicUnitPreventingSubmit on a      *)
(* submission holding at most one record, of any shape and value.          *)
(***************************************************************************)
EvalFieldTypes ==
  {"Checkbox", "Dropdown", "Radio", "Number", "Decimal", "Rating", "YesNo",
   "Email"}

LogicConditionStates == {"Equal", "Either", "AnyOf", "Lte", "Gte"}

\* Two checkbox options.
OptionOne == <<"a">>

OptionTwo == <<"a", "b">>

OthersAnswer == OthersPrefix \o <<"5">>

\* Current values a record can hold.
EvalValues ==
  {JStr(<<>>), JStr(<<"5">>), JStr(<<"1", "5", "0">>), JStr(OptionA),
   JStr(OthersLiteral), JStr(OthersAnswer), JStr(RadioButtonOthers),
   JNum(0), JNum(5), JNum(150), JNull, JUndefined,
   JArr(<<>>), JArr(<<JStr(<<"5">>)>>),
   JCheckbox(<<OptionOne, OptionTwo>>, FALSE), JCheckbox(<<OptionTwo, OptionOne>>, FALSE),
   JCheckbox(<<OptionOne, OptionTwo>>, TRUE), JCheckbox(<<>>, FALSE),
   [t |-> "object", options |-> <<OptionOne, OptionTwo>>]}

\* Values a condition can carry.
EvalConditionValues ==
  {JStr(<<"5">>), JStr(OptionA), JStr(OthersLiteral), JStr(OthersAnswer),
   JNum(5), JNum(100),
   JArr(<<JStr(OthersLiteral), JStr(<<"5">>)>>),
   JArr(<<JStr(OptionA), JNum(5)>>),
   JArr(<<JCheckbox(<<OptionOne, OptionTwo>>, FALSE)>>),
   JArr(<<JCheckbox(<<OptionTwo>>, FALSE), JCheckbox(<<OptionTwo, OptionOne>>, TRUE)>>),
   JArr(<<JCheckbox(<<OptionOne, OptionTwo>>, FALSE), JStr(<<"5">>)>>),
   JCheckbox(<<OptionOne, OptionTwo>>, FALSE)}

EvalConditions ==
  {[field |-> "s1", state |-> st, value |-> v] :
     st \in LogicConditionStates, v \in EvalConditionValues}

AnswerShapes == {"fieldValue", "answer", "answerArray"}

\* The record of s1 that holds v in the given shape.
RecordOf(ft, shape, v) ==
  CASE shape = "fieldValue" ->
         [_id |-> "s1", fieldType |-> ft, fieldValue |-> v]
    [] shape = "answer" -> [_id |-> "s1", fieldType |-> ft, answer |-> v]
    [] shape = "answerArray" ->
         [_id |-> "s1", fieldType |-> ft, answerArray |-> v]

\* No record of s1, a record without any answer attribute, or a record.
EvalSubmissions(ft) ==
  {<<>>, <<[_id |-> "s1", fieldType |-> ft]>>}
  \cup {<<RecordOf(ft, sh, v)>> : sh \in AnswerShapes, v \in EvalValues}

EvalForm(ft, c) ==
  [_id |-> "form1",
   form_fields |-> <<[_id |-> "s1", fieldType |-> ft],
                     [_id |-> "t1", fieldType |-> "Email"]>>,
   form_logics |-> <<[logicType |-> "ShowFields", conditions |-> <<c>>,
                      show |-> <<"t1">>],
                     [logicType |-> "PreventSubmit", conditions |-> <<c>>]>>]

\* getVisibleFieldIds(sub, f) followed by getLogicUnitPreventingSubmit(sub, f),
\* each run to its return; fulfilled records what isConditionFulfilled
\* answers for the record of s1, when there is one.
EvaluateSubmission ==
  /\ pc = "idle"
  /\ \E ft \in EvalFieldTypes, c \in EvalConditions :
       \E sub \in EvalSubmissions(ft) :
         LET f == EvalForm(ft, c)
             built == groupLogicUnitsByField(f)
         IN /\ form' = f
            /\ submission' = sub
            /\ logicUnitsGroupedByField' = built.grouped
            /\ infoLog' = infoLog + 2 * built.infos
            /\ visibleFieldIds' = getVisibleFieldIds(sub, f)
            /\ preventingUnit' = getLogicUnitPreventingSubmit(sub, f, <<>>)
            /\ fulfilled' = IF findConditionField(sub, c.field) = 0 THEN <<>>
                            ELSE <<isConditionFulfilled(
                                     sub[findConditionField(sub, c.field)],
                                     c)>>
  /\ gateArg' = <<>>
  /\ changesMade' = FALSE
  /\ pc' = "done"
  /\ UNCHANGED <<fieldIdx, sweeps>>
  /\ UNCHANGED callVars
  /\ UNCHANGED sideVars
  /\ UNCHANGED sweepOfField

EvalNext == EvaluateSubmission

EvalSpec == Init /\ [][EvalNext]_vars

(***************************************************************************)
(* A third caller, which calls getVisibleFieldIds again and again: each    *)
(* call runs sweep by sweep to its return, then the caller notes what the  *)
(* first call was given and returned, and calls again on any inputs.       *)
(***************************************************************************)
MaxCalls == 3

\* Forms with at most one logic unit, and four submissions.
RepeatForms ==
  {[_id |-> "form1", form_fields |-> <<FieldD1, FieldE1, FieldN1>>,
    form_logics |-> ls] : ls \in {<<>>} \cup {<<u>> : u \in LogicUnits}}

RepeatSubmissions ==
  {d \o n :
     d \in Responses(FieldD1, {OptionA}),
     n \in Responses(FieldN1, {<<"1", "5", "0">>})}

\* getVisibleFieldIds(sub, f) is entered: its locals are created anew.
EnterAgain ==
  /\ pc = "idle"
  /\ calls < MaxCalls
  /\ \E f \in RepeatForms, sub \in RepeatSubmissions :
       LET built == groupLogicUnitsByField(f) IN
       /\ form' = f
       /\ submission' = sub
       /\ logicUnitsGroupedByField' = built.grouped
       /\ infoLog' = infoLog + built.infos
  /\ visibleFieldIds' = NewFieldIdSet(visibleFieldIds)
  /\ changesMade' = TRUE
  /\ fieldIdx' = 0
  /\ sweeps' = 0
  /\ pc' = "while"
  /\ UNCHANGED <<gateArg, preventingUnit, fulfilled>>
  /\ UNCHANGED callVars
  /\ UNCHANGED sideVars
  /\ sweepOfField' = <<>>

\* The caller has the returned set and is about to call again.
ReturnToCaller ==
  /\ pc = "returned"
  /\ calls' = calls + 1
  /\ IF firstCall = <<>>
     THEN /\ firstCall' = <<[form |-> form, submission |-> submission,
                             visible |-> visibleFieldIds]>>
          /\ UNCHANGED otherBetween
     ELSE /\ otherBetween' =
               (otherBetween \/ form # firstCall[1].form
                  \/ submission # firstCall[1].submission)
          /\ UNCHANGED firstCall
  /\ pc' = "idle"
  /\ UNCHANGED <<form, submission, logicUnitsGroupedByField, infoLog,
                 visibleFieldIds, changesMade, fieldIdx, sweeps, gateArg,
                 preventingUnit, fulfilled>>
  /\ UNCHANGED sideVars
  /\ UNCHANGED sweepOfField

RepeatNext ==
  \/ EnterAgain
  \/ BeginSweep
  \/ VisitNextField
  \/ ReturnVisible
  \/ ReturnToCaller

RepeatSpec == Init /\ [][RepeatNext]_vars

(***************************************************************************)
(* A fourth caller, which compares two forms: it calls getVisibleFieldIds  *)
(* with the same answers on a form and on a variant of it (with added      *)
(* fields, with its logic units reordered, or with its fields reordered),  *)
(* each call run to its return.                                            *)
(***************************************************************************)
FieldX == [_id |-> "x", fieldType |-> "Dropdown"]

FieldY == [_id |-> "y", fieldType |-> "Email"]

\* Forms over d1, e1, n1 with no, one or two logic units.
CompareForms ==
  {[_id |-> "form1", form_fields |-> <<FieldD1, FieldE1, FieldN1>>,
    form_logics |-> ls] :
     ls \in {<<>>} \cup {<<u>> : u \in LogicUnits}
            \cup {<<u, v>> : u \in LogicUnits, v \in LogicUnits}}

\* Array a with the elements of b inserted after position i.
InsertAt(a, i, b) == SubSeq(a, 1, i) \o b \o SubSeq(a, i + 1, Len(a))

\* The answers of a list of fields: each field answered or not.
RECURSIVE ResponsesOf(_)
ResponsesOf(fields) ==
  IF Len(fields) = 0 THEN {<<>>}
  ELSE {r \o rest : r \in Responses(fields[1], {OptionA}),
                    rest \in ResponsesOf(Tail(fields))}

\* Both calls of the comparing caller, on f and on f2.
CompareCalls(how, f, f2, sub) ==
  /\ form' = f
  /\ submission' = sub
  /\ logicUnitsGroupedByField' = groupLogicUnitsByField(f2).grouped
  /\ infoLog' = infoLog + groupLogicUnitsByField(f).infos
                  + groupLogicUnitsByField(f2).infos
  /\ visibleFieldIds' = getVisibleFieldIds(sub, f)
  /\ compared' = [how |-> how, form |-> f2,
                  visible |-> getVisibleFieldIds(sub, f2)]
  /\ changesMade' = FALSE
  /\ pc' = "returned"
  /\ UNCHANGED <<fieldIdx, sweeps, gateArg, preventingUnit, fulfilled,
                 sweepOfField, evals>>
  /\ UNCHANGED callVars

\* The variant has one or two more fields, inserted anywhere.
CompareWithAddedFields ==
  /\ pc = "idle"
  /\ \E f \in CompareForms, sub \in Submissions :
       \E added \in {<<FieldX>>, <<FieldY>>, <<FieldX, FieldY>>} :
         \E i \in 0..Len(f.form_fields), r \in ResponsesOf(added) :
           CompareCalls("addedFields", f,
                        [f EXCEPT !.form_fields = InsertAt(@, i, added)],
                        sub \o r)

\* The variant has the same logic units in another order.
CompareWithReorderedLogics ==
  /\ pc = "idle"
  /\ \E f \in CompareForms, sub \in Submissions :
       \E ls \in Reorderings(f.form_logics) :
         CompareCalls("reorderedLogics", f, [f EXCEPT !.form_logics = ls], sub)

\* The variant has the same fields in another order.
CompareWithReorderedFields ==
  /\ pc = "idle"
  /\ \E f \in CompareForms, sub \in Submissions :
       \E fl \in Reorderings(f.form_fields) :
         CompareCalls("reorderedFields", f, [f EXCEPT !.form_fields = fl], sub)

CompareNext ==
  \/ CompareWithAddedFields
  \/ CompareWithReorderedLogics
  \/ CompareWithReorderedFields

CompareSpec == Init /\ [][CompareNext]_vars

(***************************************************************************)
(* A fifth caller (a server handling two submissions of one form): it      *)
(* builds the index of the form once and runs two evaluations over it,     *)
(* their steps interleaved in any order.  Each evaluation is the loop of   *)
(* getVisibleFieldIds over its own answers and its own set, followed by    *)
(* getLogicUnitPreventingSubmit called with that set.                      *)
(***************************************************************************)
\* Forms over e1, n1, d1 with no or one logic unit, and the chain
\* d1 -> n1 -> e1 followed by a PreventSubmit unit.
ConcurrentForms ==
  {[_id |-> "form1", form_fields |-> <<FieldE1, FieldN1, FieldD1>>,
    form_logics |-> ls] :
     ls \in {<<>>} \cup {<<u>> : u \in LogicUnits}
            \cup {<<[logicType |-> "ShowFields", conditions |-> <<CondD1>>,
                     show |-> <<"n1">>],
                    [logicType |-> "ShowFields", conditions |-> <<CondN1>>,
                     show |-> <<"e1">>],
                    [logicType |-> "PreventSubmit",
                     conditions |-> <<CondN1>>]>>}}

\* The locals of one evaluation at its start (lines 300-302).
NewEvaluation(sub) ==
  [submission |-> sub, pc |-> "while", visible |-> {}, changesMade |-> TRUE,
   fieldIdx |-> 0, preventingUnit |-> 0]

\* Faulty variant, for comparison: the evaluations add to one common set.
WriteVisible_Shared(es, i, st) ==
  [j \in DOMAIN es |->
     IF j = i
     THEN [es[j] EXCEPT !.visible = st.visible,
                        !.changesMade = st.changesMade]
     ELSE [es[j] EXCEPT !.visible = st.visible]]

\* visibleFieldIds.add(...) and changesMade = true of evaluation i: they
\* write the evaluation's own set and flag.
WriteVisible(es, i, st) ==
  [es EXCEPT ![i].visible = st.visible, ![i].changesMade = st.changesMade]

\* What the steps of the evaluations leave alone.
ConcurrentUnchanged ==
  /\ UNCHANGED <<form, submission, pc, logicUnitsGroupedByField, infoLog,
                 visibleFieldIds, changesMade, fieldIdx, sweeps, gateArg,
                 preventingUnit, fulfilled, sweepOfField, compared>>
  /\ UNCHANGED callVars

\* The index is built and two evaluations start.
StartEvaluations ==
  /\ pc = "idle"
  /\ \E f \in ConcurrentForms :
       \E sub1 \in RepeatSubmissions, sub2 \in RepeatSubmissions :
         LET built == groupLogicUnitsByField(f) IN
         /\ form' = f
         /\ logicUnitsGroupedByField' = built.grouped
         /\ infoLog' = infoLog + built.infos
         /\ evals' = <<NewEvaluation(sub1), NewEvaluation(sub2)>>
  /\ pc' = "concurrent"
  /\ UNCHANGED <<submission, visibleFieldIds, changesMade, fieldIdx, sweeps,
                 gateArg, preventingUnit, fulfilled, sweepOfField, compared>>
  /\ UNCHANGED callVars

\* Evaluation i: while (changesMade) holds, changesMade = false.
EvalBeginSweep(i) ==
  /\ evals[i].pc = "while"
  /\ evals[i].changesMade
  /\ evals' = [evals EXCEPT ![i].changesMade = FALSE,
                            ![i].fieldIdx = 1,
                            ![i].pc = "forEach"]
  /\ ConcurrentUnchanged

\* Evaluation i: one call of the forEach callback.
EvalVisitField(i) ==
  /\ evals[i].pc = "forEach"
  /\ LET e == evals[i]
         st == VisitField(e.submission, logicUnitsGroupedByField,
                          form.form_fields[e.fieldIdx],
                          [visible |-> e.visible,
                           changesMade |-> e.changesMade])
         moved == [evals EXCEPT
                     ![i].fieldIdx = e.fieldIdx + 1,
                     ![i].pc = IF e.fieldIdx = Len(form.form_fields)
                               THEN "while" ELSE "forEach"]
     IN evals' = WriteVisible(moved, i, st)
  /\ ConcurrentUnchanged

\* Evaluation i: while (changesMade) fails, the set is returned.
EvalReturn(i) ==
  /\ evals[i].pc = "while"
  /\ ~evals[i].changesMade
  /\ evals' = [evals EXCEPT ![i].pc = "returned"]
  /\ ConcurrentUnchanged

\* Evaluation i: getLogicUnitPreventingSubmit(submission, form, its set).
EvalGate(i) ==
  /\ evals[i].pc = "returned"
  /\ evals' = [evals EXCEPT
                 ![i].preventingUnit =
                   getLogicUnitPreventingSubmit(evals[i].submission, form,
                                                <<evals[i].visible>>),
                 ![i].pc = "done"]
  /\ ConcurrentUnchanged

ConcurrentNext ==
  \/ StartEvaluations
  \/ \E i \in DOMAIN evals :
       \/ EvalBeginSweep(i)
       \/ EvalVisitField(i)
       \/ EvalReturn(i)
       \/ EvalGate(i)

ConcurrentSpec == Init /\ [][ConcurrentNext]_vars

(***************************************************************************)
(* Properties                                                              *)
(***************************************************************************)
\* getVisibleFieldIds has returned: visibleFieldIds is its result.
Returned == pc \in {"returned", "done"}

\* The index exists (groupLogicUnitsByField has run).
IndexBuilt == pc # "idle"

\* The subject of condition c has an answer record that fulfils c.
AnswerFulfils(c) ==
  \E k \in 1..Len(submission) :
    /\ submission[k]._id = c.field
    /\ isConditionFulfilled(submission[k], c)

\* Every condition of AND-group g has its subject in v and is fulfilled.
GroupHoldsIn(g, v) ==
  \A i \in 1..Len(g) : g[i].field \in v /\ AnswerFulfils(g[i])

HasGroups(id) == id \in DOMAIN logicUnitsGroupedByField

GroupsOf(id) ==
  {logicUnitsGroupedByField[id][i] :
     i \in 1..Len(logicUnitsGroupedByField[id])}

\* C1. Soundness of the resolver: every id of the visible set (at any moment,
\* hence also in the returned set) either has no AND-group in the index or
\* has an AND-group whose conditions all have a visible, fulfilling subject.
C1_Soundness ==
  IndexBuilt =>
    \A id \in visibleFieldIds :
      \/ ~HasGroups(id)
      \/ \E g \in GroupsOf(id) : GroupHoldsIn(g, visibleFieldIds)

\* C1 witness: the resolver returned, a field was made visible by a group,
\* and another field stays hidden although the only unmet part of one of its
\* groups is the visibility of a subject whose stale answer matches.
C1_Witness ==
  /\ pc = "returned"
  /\ \E id \in visibleFieldIds : HasGroups(id)
  /\ \E id \in DOMAIN logicUnitsGroupedByField \ visibleFieldIds :
       \E g \in GroupsOf(id) :
         /\ \A i \in 1..Len(g) : AnswerFulfils(g[i])
         /\ \E i \in 1..Len(g) : g[i].field \notin visibleFieldIds

\* C2. Fixed point: when the resolver has returned V, every form field outside
\* V has AND-groups and none of them holds in V: one more sweep adds nothing.
C2_FixedPoint ==
  Returned =>
    \A id \in FormFieldIds(form) \ visibleFieldIds :
      /\ HasGroups(id)
      /\ \A g \in GroupsOf(id) : ~GroupHoldsIn(g, visibleFieldIds)

\* C2 witness: the resolver returned after more than two sweeps, with a field
\* left outside the set.
C2_Witness ==
  /\ pc = "returned"
  /\ sweeps >= 3
  /\ FormFieldIds(form) \ visibleFieldIds # {}

\* A ShowFields unit all of whose condition subjects are form fields.
RetainedShowUnit(u) ==
  /\ u.logicType = "ShowFields"
  /\ \A i \in 1..Len(u.conditions) :
       u.conditions[i].field \in FormFieldIds(form)

IsShowTarget(id) ==
  \E i \in 1..Len(form.form_logics) :
    /\ RetainedShowUnit(form.form_logics[i])
    /\ \E j \in 1..Len(form.form_logics[i].show) :
         form.form_logics[i].show[j] = id

\* The end-to-end scenario of the specification.
ScenarioForm ==
  /\ form.form_fields = <<FieldD1, FieldE1, FieldN1>>
  /\ form.form_logics =
       <<[logicType |-> "ShowFields", conditions |-> <<CondD1>>,
          show |-> <<"e1">>]>>
  /\ submission =
       <<[_id |-> "d1", fieldType |-> "Dropdown", answer |-> JStr(OptionA)]>>

\* C3. A form field that is the show target of no retained ShowFields unit is
\* in the returned set whatever the answers; in the end-to-end scenario the
\* returned set is {d1, e1, n1}.
C3_NoLogicAlwaysVisible ==
  Returned =>
    /\ \A id \in FormFieldIds(form) :
         ~IsShowTarget(id) => id \in visibleFieldIds
    /\ ScenarioForm => visibleFieldIds = {"d1", "e1", "n1"}

\* C3 witness: the scenario has been resolved.
C3_Witness ==
  /\ pc = "returned"
  /\ ScenarioForm
  /\ visibleFieldIds = {"d1", "e1", "n1"}

\* Every member of s has AND-groups, and each of them has a condition whose
\* subject is a member of s.
ClosedCycle(s) ==
  /\ s # {}
  /\ \A m \in s :
       /\ HasGroups(m)
       /\ \A g \in GroupsOf(m) : \E i \in 1..Len(g) : g[i].field \in s

\* C4. Cycle safety: no member of a closed cycle of fields is in the returned
\* set, for any answers.
C4_CycleSafety ==
  Returned =>
    \A s \in SUBSET FormFieldIds(form) :
      ClosedCycle(s) => s \cap visibleFieldIds = {}

\* C4 witness: the resolver returned normally on a form with a two-field cycle
\* whose conditions are all matched by the (hidden) answers.
C4_Witness ==
  /\ pc = "returned"
  /\ ClosedCycle({"d1", "n1"})
  /\ ~ClosedCycle({"d1"})
  /\ ~ClosedCycle({"n1"})
  /\ \A m \in {"d1", "n1"} :
       \E g \in GroupsOf(m) : \A i \in 1..Len(g) : AnswerFulfils(g[i])
  /\ visibleFieldIds = {"e1"}

\* C5. Termination: once getVisibleFieldIds is entered, for any form and
\* answer set, its sweep loop eventually exits and the set is returned.
C5_Termination == IndexBuilt ~> Returned

\* C5 witness: the resolver returned on a form in which a field's only
\* condition is on the field itself.
C5_Witness ==
  /\ pc = "returned"
  /\ ClosedCycle({"d1"})
  /\ sweeps >= 2

C7_MonotoneGrowth ==
  [][/\ visibleFieldIds \subseteq visibleFieldIds'
     /\ (pc = "forEach" /\ ~changesMade /\ changesMade') =>
          Cardinality(visibleFieldIds') > Cardinality(visibleFieldIds)
     /\ (pc = "forEach" /\ pc' = "while" /\ changesMade') =>
          Cardinality(visibleFieldIds') >= sweeps']_vars

\* C7 witness: in the third sweep the flag has been raised again.
C7_Witness ==
  /\ pc = "forEach"
  /\ sweeps = 3
  /\ changesMade
  /\ Cardinality(visibleFieldIds) = 3

\* The gate's visible set: the argument, or the resolver's result.
GateVisible == IF gateArg = <<>> THEN visibleFieldIds ELSE gateArg[1]

\* Unit i of form_logics is a PreventSubmit unit whose condition subjects all
\* exist in the form, are visible to the gate and are fulfilled.
Blocks(i) ==
  LET u == form.form_logics[i] IN
  /\ u.logicType = "PreventSubmit"
  /\ \A j \in 1..Len(u.conditions) :
       /\ u.conditions[j].field \in FormFieldIds(form)
       /\ u.conditions[j].field \in GateVisible
       /\ AnswerFulfils(u.conditions[j])

\* The PreventSubmit scenario of the specification: the only unit is
\* {n1 Gte 100} and n1 is visible to the gate.
GateScenario ==
  /\ form.form_logics =
       <<[logicType |-> "PreventSubmit", conditions |-> <<CondN1>>]>>
  /\ "n1" \in GateVisible

AnswerOfN1(a) ==
  \E k \in 1..Len(submission) :
    submission[k]._id = "n1" /\ submission[k].answer = JStr(a)

\* C8. The gate returns the first blocking unit in authoring order, and
\* undefined (0) exactly when no unit blocks; in the scenario, answer 150
\* returns the unit and answer 50 returns none.
C8_GateResult ==
  pc = "done" =>
    /\ preventingUnit = 0 <=>
         ~\E i \in 1..Len(form.form_logics) : Blocks(i)
    /\ preventingUnit # 0 =>
         /\ preventingUnit \in 1..Len(form.form_logics)
         /\ Blocks(preventingUnit)
         /\ \A j \in 1..(preventingUnit - 1) : ~Blocks(j)
    /\ (GateScenario /\ AnswerOfN1(<<"1", "5", "0">>)) => preventingUnit = 1
    /\ (GateScenario /\ AnswerOfN1(<<"5", "0">>)) => preventingUnit = 0

\* C8 witness: two different units block and the first one is returned.
C8_Witness ==
  /\ pc = "done"
  /\ Len(form.form_logics) = 2
  /\ form.form_logics[1] # form.form_logics[2]
  /\ Blocks(1)
  /\ Blocks(2)
  /\ preventingUnit = 1

\* C9. With the visible set omitted the gate returns what it returns when it
\* is given the result of getVisibleFieldIds, so a unit with a condition on
\* a field hidden by show/hide logic does not block.
C9_GateDefaultVisibility ==
  (pc = "done" /\ gateArg = <<>>) =>
    /\ preventingUnit =
         getLogicUnitPreventingSubmit(submission, form, <<visibleFieldIds>>)
    /\ preventingUnit # 0 =>
         \A j \in 1..Len(form.form_logics[preventingUnit].conditions) :
           form.form_logics[preventingUnit].conditions[j].field
             \in visibleFieldIds

\* C9 witness: the gate was called without a visible set, a PreventSubmit unit
\* has all its conditions matched by the answers, one of its subjects is
\* hidden, and nothing blocks.
C9_Witness ==
  /\ pc = "done"
  /\ gateArg = <<>>
  /\ preventingUnit = 0
  /\ \E i \in 1..Len(form.form_logics) :
       LET u == form.form_logics[i] IN
       /\ u.logicType = "PreventSubmit"
       /\ Len(u.conditions) > 0
       /\ \A j \in 1..Len(u.conditions) : AnswerFulfils(u.conditions[j])
       /\ \E j \in 1..Len(u.conditions) :
            u.conditions[j].field \notin visibleFieldIds

\* The AND-groups the index must hold for target id: the conditions of the
\* retained ShowFields units that list id, in authoring order.
RECURSIVE ExpectedGroups(_, _)
ExpectedGroups(id, i) ==
  IF i > Len(form.form_logics) THEN <<>>
  ELSE LET u == form.form_logics[i] IN
       (IF /\ RetainedShowUnit(u)
           /\ \E j \in 1..Len(u.show) : u.show[j] = id
        THEN <<u.conditions>> ELSE <<>>)
       \o ExpectedGroups(id, i + 1)

\* groupLogicUnitsByField has just returned its index.
IndexJustBuilt == pc = "while" /\ sweeps = 0

\* C10. A ShowFields unit with a condition on an unknown field id reaches no
\* target: no group of the returned index has a condition on an unknown
\* field, while every retained unit is indexed under each of its existing
\* targets.
C10_InvalidUnitsDropped ==
  IndexJustBuilt =>
    /\ \A id \in DOMAIN logicUnitsGroupedByField :
         \A g \in GroupsOf(id) :
           \A i \in 1..Len(g) : g[i].field \in FormFieldIds(form)
    /\ \A id \in FormFieldIds(form) :
         IF HasGroups(id)
         THEN logicUnitsGroupedByField[id] = ExpectedGroups(id, 1)
         ELSE ExpectedGroups(id, 1) = <<>>

\* C10 witness: an invalid unit that lists existing targets was dropped next
\* to a retained unit that was indexed.
C10_Witness ==
  /\ pc = "while"
  /\ Len(form.form_logics) = 2
  /\ form.form_logics[1] =
       [logicType |-> "ShowFields", conditions |-> <<CondD1, CondX>>,
        show |-> <<"x", "e1", "n1">>]
  /\ RetainedShowUnit(form.form_logics[2])
  /\ DOMAIN logicUnitsGroupedByField = {"d1"}

\* The (unit, show position) pairs of retained ShowFields units that name id.
ShowOccurrences(id) ==
  UNION {{<<i, j>> : j \in {k \in 1..Len(form.form_logics[i].show) :
                              form.form_logics[i].show[k] = id}} :
           i \in {n \in 1..Len(form.form_logics) :
                    RetainedShowUnit(form.form_logics[n])}}

\* C11. Unknown show targets are skipped and nothing else: every key of the
\* index is a form field id; a retained ShowFields unit has its AND-group in
\* the entry of each of its show targets that is a form field, also when
\* another of its targets is unknown; and an entry holds one group per
\* retained unit that lists its key, no more.
C11_UnknownTargetsSkipped ==
  IndexJustBuilt =>
    /\ DOMAIN logicUnitsGroupedByField \subseteq FormFieldIds(form)
    /\ \A i \in 1..Len(form.form_logics) :
         LET u == form.form_logics[i] IN
         RetainedShowUnit(u) =>
           \A j \in 1..Len(u.show) :
             u.show[j] \in FormFieldIds(form) =>
               /\ HasGroups(u.show[j])
               /\ u.conditions \in GroupsOf(u.show[j])
    /\ \A id \in DOMAIN logicUnitsGroupedByField :
         Len(logicUnitsGroupedByField[id]) = Cardinality(ShowOccurrences(id))

\* C11 witness: a retained unit whose first show target is unknown was indexed
\* under its two existing targets, and only there.
C11_Witness ==
  /\ IndexJustBuilt
  /\ Len(form.form_logics) = 1
  /\ form.form_logics[1] =
       [logicType |-> "ShowFields", conditions |-> <<CondD1>>,
        show |-> <<"x", "e1", "n1">>]
  /\ DOMAIN logicUnitsGroupedByField = {"e1", "n1"}

\* The ShowFields units dropped by the index build: those with a condition
\* on an id of no form field.
DroppedUnits ==
  {i \in 1..Len(form.form_logics) :
     /\ form.form_logics[i].logicType = "ShowFields"
     /\ ~RetainedShowUnit(form.form_logics[i])}

\* The index builds run so far: one by getVisibleFieldIds, and one more inside
\* the gate when it is called without a visible set.
IndexBuilds ==
  IF pc = "idle" THEN 0
  ELSE IF pc = "done" /\ gateArg = <<>> THEN 2
  ELSE 1

\* C12 as stated: every index build that drops a unit emits exactly one
\* event, and a build that drops none emits none.
C12_AsStated ==
  infoLog = IF DroppedUnits # {} THEN IndexBuilds ELSE 0

\* C12, amended. An index build emits one event - not one per dropped unit -
\* when it drops a unit and the form has an _id, and none otherwise; it
\* returns the index of the retained units either way.
C12_DiagnosticEvent ==
  /\ infoLog = IF DroppedUnits # {} /\ form._id # "" THEN IndexBuilds ELSE 0
  /\ IndexJustBuilt =>
       \A id \in FormFieldIds(form) :
         IF HasGroups(id)
         THEN \A g \in GroupsOf(id) :
                \E i \in 1..Len(form.form_logics) \ DroppedUnits :
                  form.form_logics[i].logicType = "ShowFields"
                    /\ form.form_logics[i].conditions = g
         ELSE ShowOccurrences(id) = {}

\* C12 witness: two units were dropped by one build of a form with an _id,
\* one event was emitted and the build returned.
C12_Witness ==
  /\ IndexJustBuilt
  /\ Cardinality(DroppedUnits) = 2
  /\ form._id # ""
  /\ infoLog = 1

(***************************************************************************)
(* Properties of the condition evaluator (EvalSpec)                        *)
(***************************************************************************)
\* The evaluating caller has finished.
Evaluated == pc = "done"

\* The condition under evaluation and the type of its subject field.
EvalCondition == form.form_logics[1].conditions[1]

SubjectType == form.form_fields[1].fieldType

\* The submission has a record of the subject that carries an answer
\* attribute, and the value bound to that attribute.
HasValue ==
  /\ submission # <<>>
  /\ DOMAIN submission[1] \cap AnswerShapes # {}

RecordShape == CHOOSE sh \in DOMAIN submission[1] \cap AnswerShapes : TRUE

CurrentValue == submission[1][RecordShape]

\* No record, no answer attribute, or a null / undefined / empty value.
AbsentValue ==
  \/ ~HasValue
  \/ CurrentValue \in {JNull, JUndefined, JStr(<<>>), JArr(<<>>)}

\* The applicability table of the specification.
Applicable(ft, st) ==
  \/ ft = "Checkbox" /\ st = "AnyOf"
  \/ ft \in {"Dropdown", "Radio"} /\ st \in {"Equal", "Either"}
  \/ ft \in {"Number", "Decimal", "Rating"} /\ st \in {"Equal", "Lte", "Gte"}
  \/ ft = "YesNo" /\ st = "Equal"

\* C13 as stated: isConditionFulfilled answers false for every (field type,
\* operator) pair outside the applicability table, whatever the values.
C13_OperatorApplicability ==
  (Evaluated /\ fulfilled # <<>>
     /\ ~Applicable(SubjectType, EvalCondition.state)) =>
    fulfilled = <<FALSE>>

\* C14. An absent answer never satisfies: with no record of the subject, a
\* record without answer attribute, or a null, undefined, empty-string or
\* empty-array value, isConditionFulfilled (when reached) answers false, the
\* resolver does not show the target and the gate does not block, for every
\* operator.
C14_AbsentNeverSatisfies ==
  (Evaluated /\ AbsentValue) =>
    /\ fulfilled \in {<<>>, <<FALSE>>}
    /\ visibleFieldIds = {"s1"}
    /\ preventingUnit = 0

\* C14 witness: a Number subject answered with the empty string under
\* {Lte 5}: 0 <= 5 would hold after coercion, and nothing is satisfied.
C14_Witness ==
  /\ Evaluated
  /\ SubjectType = "Number"
  /\ HasValue
  /\ CurrentValue = JStr(<<>>)
  /\ EvalCondition.state = "Lte"
  /\ EvalCondition.value = JNum(5)
  /\ fulfilled = <<FALSE>>
  /\ visibleFieldIds = {"s1"}
  /\ preventingUnit = 0

\* String s is one of the values the condition lists (its value, or an
\* element of its value when that is an array).
ConditionLists(c, s) ==
  \/ c.value = JStr(s)
  \/ /\ c.value.t = "array"
     /\ \E i \in 1..Len(c.value.v) : c.value.v[i] = JStr(s)

\* A string made of "Others: " and any text.
IsOthersAnswer(v) ==
  /\ v.t = "string"
  /\ \E n \in 0..Len(v.v) :
       v.v = OthersPrefix \o SubSeq(v.v, Len(v.v) - n + 1, Len(v.v))

\* C15. Radio "Others" duality: for a Radio subject under Equal or Either,
\* when the condition lists "Others" both the live-form sentinel
\* 'radioButtonOthers' and a finalized answer "Others: ..." fulfil it; when
\* it does not, they fulfil it only if the condition lists them literally.
C15_RadioOthersDuality ==
  (Evaluated /\ HasValue /\ SubjectType = "Radio"
     /\ EvalCondition.state \in {"Equal", "Either"}) =>
    /\ (ConditionLists(EvalCondition, OthersLiteral)
          /\ RecordShape = "fieldValue"
          /\ CurrentValue = JStr(RadioButtonOthers)) => fulfilled = <<TRUE>>
    /\ (ConditionLists(EvalCondition, OthersLiteral)
          /\ RecordShape = "answer"
          /\ IsOthersAnswer(CurrentValue)) => fulfilled = <<TRUE>>
    /\ (~ConditionLists(EvalCondition, OthersLiteral)
          /\ (CurrentValue = JStr(RadioButtonOthers)
                \/ IsOthersAnswer(CurrentValue))) =>
         fulfilled = <<ConditionLists(EvalCondition, CurrentValue.v)>>

\* C15 witness: the finalized answer "Others: 5" of a Radio subject fulfils
\* {Equal, "Others"}; the target is shown and the gate blocks.
C15_Witness ==
  /\ Evaluated
  /\ HasValue
  /\ SubjectType = "Radio"
  /\ RecordShape = "answer"
  /\ CurrentValue = JStr(OthersAnswer)
  /\ EvalCondition.state = "Equal"
  /\ EvalCondition.value = JStr(OthersLiteral)
  /\ fulfilled = <<TRUE>>
  /\ visibleFieldIds = {"s1", "t1"}

\* C16 as stated: for a Number, Decimal, Rating or YesNo subject, an Equal
\* condition that lists "Others" is fulfilled only by an answer whose string
\* is one of the condition's values.
C16_OthersOnlySingleChoice ==
  (Evaluated /\ HasValue /\ ~AbsentValue
     /\ SubjectType \in {"Number", "Decimal", "Rating", "YesNo"}
     /\ EvalCondition.state = "Equal"
     /\ ConditionLists(EvalCondition, OthersLiteral)
     /\ CurrentValue.t = "string") =>
    fulfilled = <<ConditionLists(EvalCondition, CurrentValue.v)>>

\* What the values of the model are as numbers: <<n>>, or <<>> for a value
\* that is not a number (NaN).
NumericReading(v) ==
  CASE v.t = "number" -> <<v.v>>
    [] v = JStr(<<"5">>) -> <<5>>
    [] v = JStr(<<"1", "5", "0">>) -> <<150>>
    [] v = JArr(<<JStr(<<"5">>)>>) -> <<5>>
    [] OTHER -> <<>>

\* current <= / >= wanted as numbers; false when either is not a number.
NumericallyFulfilled(st, current, wanted) ==
  /\ NumericReading(current) # <<>>
  /\ NumericReading(wanted) # <<>>
  /\ IF st = "Lte" THEN NumericReading(current)[1] <= NumericReading(wanted)[1]
     ELSE NumericReading(current)[1] >= NumericReading(wanted)[1]

CheckboxShaped(v) == v.t = "object" /\ DOMAIN v = {"t", "options", "others"}

\* The condition's value is an array of {options, others} values.
CandidatesShaped(c) ==
  /\ c.value.t = "array"
  /\ \A i \in 1..Len(c.value.v) : CheckboxShaped(c.value.v[i])

\* Two option lists hold the same options, each as many times.
SameOptions(a, b) ==
  /\ Len(a) = Len(b)
  /\ \A i \in 1..Len(a) :
       Cardinality({j \in 1..Len(a) : a[j] = a[i]})
         = Cardinality({j \in 1..Len(b) : b[j] = a[i]})

\* C18. AnyOf on checkboxes: when the subject is a Checkbox and both sides
\* are of the {options, others} shape, the condition is fulfilled iff some
\* candidate has the others flag and the options of the current value, in any
\* order; reordering the options of the current value or of a candidate
\* leaves the outcome unchanged; in every other case AnyOf is not fulfilled.
C18_AnyOfOrderIndependent ==
  (Evaluated /\ HasValue /\ EvalCondition.state = "AnyOf") =>
    IF /\ SubjectType = "Checkbox"
       /\ CheckboxShaped(CurrentValue)
       /\ CandidatesShaped(EvalCondition)
    THEN
      LET cands == EvalCondition.value.v IN
      /\ fulfilled =
           <<\E i \in 1..Len(cands) :
               /\ cands[i].others = CurrentValue.others
               /\ SameOptions(cands[i].options, CurrentValue.options)>>
      /\ \A o \in Reorderings(CurrentValue.options) :
           isConditionFulfilled(
             [submission[1] EXCEPT ![RecordShape].options = o],
             EvalCondition) = fulfilled[1]
      /\ \A i \in 1..Len(cands) :
           \A o \in Reorderings(cands[i].options) :
             isConditionFulfilled(
               submission[1],
               [EvalCondition EXCEPT !.value.v[i].options = o]) = fulfilled[1]
    ELSE fulfilled = <<FALSE>>

\* C18 witness: a Checkbox answer whose options come in the other order than
\* the candidate's fulfils AnyOf.
C18_Witness ==
  /\ Evaluated
  /\ HasValue
  /\ SubjectType = "Checkbox"
  /\ CurrentValue = JCheckbox(<<OptionTwo, OptionOne>>, FALSE)
  /\ EvalCondition.state = "AnyOf"
  /\ EvalCondition.value = JArr(<<JCheckbox(<<OptionOne, OptionTwo>>, FALSE)>>)
  /\ fulfilled = <<TRUE>>
  /\ visibleFieldIds = {"s1", "t1"}

\* The submission with its record's value bound to another attribute.
Reshaped(sh) == <<RecordOf(SubjectType, sh, CurrentValue)>>

\* C19. Shape uniformity: the same value bound to fieldValue (live form), to
\* answer or to answerArray (finalized) gives the same visible set and the
\* same preventing unit.
C19_ShapeUniformity ==
  (Evaluated /\ HasValue) =>
    \A sh \in AnswerShapes :
      /\ getVisibleFieldIds(Reshaped(sh), form) = visibleFieldIds
      /\ getLogicUnitPreventingSubmit(Reshaped(sh), form, <<>>)
           = preventingUnit

\* C19 witness: a finalized checkbox answer (answerArray) shows the target
\* and blocks, and so does the same value in live-form shape.
C19_Witness ==
  /\ Evaluated
  /\ HasValue
  /\ RecordShape = "answerArray"
  /\ SubjectType = "Checkbox"
  /\ CheckboxShaped(CurrentValue)
  /\ visibleFieldIds = {"s1", "t1"}
  /\ preventingUnit = 2
  /\ getVisibleFieldIds(Reshaped("fieldValue"), form) = {"s1", "t1"}

(***************************************************************************)
(* Properties of repeated calls (RepeatSpec)                               *)
(***************************************************************************)
\* The call that has just returned was given what the first call was given.
SameInputsAsFirst ==
  /\ firstCall # <<>>
  /\ form = firstCall[1].form
  /\ submission = firstCall[1].submission

\* C20. Determinism: a call of getVisibleFieldIds on the form and answers of
\* an earlier call returns the set that call returned, whatever was
\* evaluated in between.
C20_Determinism ==
  (pc = "returned" /\ SameInputsAsFirst) =>
    visibleFieldIds = firstCall[1].visible

\* C20 witness: after a call on other inputs, the first call is repeated and
\* returns the same set, which leaves a field hidden.
C20_Witness ==
  /\ pc = "returned"
  /\ SameInputsAsFirst
  /\ otherBetween
  /\ visibleFieldIds = firstCall[1].visible
  /\ visibleFieldIds # FormFieldIds(form)

(***************************************************************************)
(* Properties of getVisibleFieldIds on two related forms (CompareSpec)     *)
(***************************************************************************)
\* The ids of the fields the variant has in addition.
AddedFieldIds == FormFieldIds(compared.form) \ FormFieldIds(form)

\* The ids some logic unit of the form lists as show targets, and the ids
\* some logic unit has a condition on.
ShowTargetIds ==
  UNION {{form.form_logics[i].show[j] :
            j \in 1..Len(form.form_logics[i].show)} :
           i \in {n \in 1..Len(form.form_logics) :
                    form.form_logics[n].logicType = "ShowFields"}}

ConditionSubjectIds ==
  UNION {{form.form_logics[i].conditions[j].field :
            j \in 1..Len(form.form_logics[i].conditions)} :
           i \in 1..Len(form.form_logics)}

\* C21 as stated: when the added fields are the show target of no logic
\* unit, every field visible for the form is visible for the variant.
C21_AsStated ==
  (compared.how = "addedFields" /\ AddedFieldIds \cap ShowTargetIds = {}) =>
    visibleFieldIds \subseteq compared.visible

\* C21, amended. When the added fields are neither a show target nor a
\* condition subject of any logic unit, every field visible for the form is
\* visible for the variant (which shows the added fields and nothing else
\* in addition).
C21_AddedFieldsMonotone ==
  (compared.how = "addedFields"
     /\ AddedFieldIds \cap (ShowTargetIds \cup ConditionSubjectIds) = {}) =>
    /\ visibleFieldIds \subseteq compared.visible
    /\ compared.visible = visibleFieldIds \cup AddedFieldIds

\* C21 witness: a field unknown to every logic unit was added in front of a
\* form that hides one of its fields.
C21_Witness ==
  /\ compared.how = "addedFields"
  /\ AddedFieldIds = {"y"}
  /\ compared.form.form_fields[1]._id = "y"
  /\ form.form_logics # <<>>
  /\ visibleFieldIds # FormFieldIds(form)
  /\ compared.visible = visibleFieldIds \cup {"y"}

\* C22. Rule-order independence: a form and the same form with its logic
\* units in another order have the same visible set, for any answers.
C22_RuleOrderIndependent ==
  compared.how = "reorderedLogics" => compared.visible = visibleFieldIds

\* C22 witness: e1 is the target of two different units, of which only the
\* second holds; the variant lists them the other way round.
C22_Witness ==
  /\ compared.how = "reorderedLogics"
  /\ form.form_logics =
       <<[logicType |-> "ShowFields", conditions |-> <<CondN1>>,
          show |-> <<"e1">>],
         [logicType |-> "ShowFields", conditions |-> <<CondD1>>,
          show |-> <<"e1">>]>>
  /\ compared.form.form_logics[1] = form.form_logics[2]
  /\ AnswerFulfils(CondD1)
  /\ ~AnswerFulfils(CondN1)
  /\ visibleFieldIds = {"d1", "e1", "n1"}
  /\ compared.visible = {"d1", "e1", "n1"}

\* C25. Field-order independence: a form and the same form with its fields
\* in another order have the same visible set, for any answers.
C25_FieldOrderIndependent ==
  compared.how = "reorderedFields" => compared.visible = visibleFieldIds

\* C25 witness: a chain d1 -> n1 -> e1 resolved with the fields in the
\* order of the chain and in the reverse order.
C25_Witness ==
  /\ compared.how = "reorderedFields"
  /\ form.form_logics =
       <<[logicType |-> "ShowFields", conditions |-> <<CondD1>>,
          show |-> <<"n1">>],
         [logicType |-> "ShowFields", conditions |-> <<CondN1>>,
          show |-> <<"e1">>]>>
  /\ compared.form.form_fields = <<FieldE1, FieldN1, FieldD1>>
  /\ visibleFieldIds = {"d1", "e1", "n1"}
  /\ compared.visible = {"d1", "e1", "n1"}

(***************************************************************************)
(* Properties of interleaved evaluations (ConcurrentSpec)                  *)
(***************************************************************************)
\* Evaluation i has returned what the calls return when run alone.
ReturnsAsAlone(i) ==
  /\ evals[i].pc \in {"returned", "done"} =>
       evals[i].visible = getVisibleFieldIds(evals[i].submission, form)
  /\ evals[i].pc = "done" =>
       evals[i].preventingUnit =
         getLogicUnitPreventingSubmit(evals[i].submission, form, <<>>)

\* A step of the evaluations writes neither the form, nor the index, nor an
\* answer set, nor a set that was returned (and handed to the gate).
WritesOwnSetOnly ==
  pc = "concurrent" =>
    /\ form' = form
    /\ logicUnitsGroupedByField' = logicUnitsGroupedByField
    /\ \A i \in DOMAIN evals :
         /\ evals'[i].submission = evals[i].submission
         /\ evals[i].pc \in {"returned", "done"} =>
              evals'[i].visible = evals[i].visible

\* C23. Interleaved evaluations over one form and one index are independent:
\* each returns the set and the unit it returns when run alone, and no step
\* writes anything but the evaluation's own set.
C23_IndependentEvaluations ==
  /\ [](\A i \in DOMAIN evals : ReturnsAsAlone(i))
  /\ [][WritesOwnSetOnly]_vars

\* C23 witness: two evaluations of the chain form, on different answers,
\* have both finished with different sets and different gate results.
C23_Witness ==
  /\ pc = "concurrent"
  /\ Len(form.form_logics) = 3
  /\ evals[1].pc = "done"
  /\ evals[2].pc = "done"
  /\ evals[1].visible = {"d1", "e1", "n1"}
  /\ evals[2].visible = {"d1"}
  /\ evals[1].preventingUnit = 3
  /\ evals[2].preventingUnit = 0

(***************************************************************************)
(* Properties of the sweeps (Spec)                                         *)
(***************************************************************************)
\* The field has no condition to wait for: no AND-group, or an empty one.
Unconditional(id) == ~HasGroups(id) \/ <<>> \in GroupsOf(id)

\* The sweep in which id was added, for the ids added so far.
AddedIds == DOMAIN sweepOfField

\* The first sweep is over.
FirstSweepDone == sweeps >= 2 \/ (sweeps = 1 /\ pc # "forEach")

MadeVisibleBy(id, g) ==
  \A i \in 1..Len(g) :
    /\ g[i].field \in AddedIds
    /\ sweepOfField[g[i].field] <= sweepOfField[id]
    /\ AnswerFulfils(g[i])

C26_EmptyConditionsSatisfied ==
  /\ Returned =>
       \A i \in 1..Len(form.form_logics) :
         LET u == form.form_logics[i] IN
         (u.logicType = "ShowFields" /\ u.conditions = <<>>) =>
           \A j \in 1..Len(u.show) :
             u.show[j] \in FormFieldIds(form) => u.show[j] \in visibleFieldIds
  /\ pc = "done" =>
       \A i \in 1..Len(form.form_logics) :
         LET u == form.form_logics[i] IN
         (u.logicType = "PreventSubmit" /\ u.conditions = <<>>) =>
           /\ preventingUnit \in 1..i
           /\ preventingUnit < i => Blocks(preventingUnit)

\* C26 witness: with no answers and an empty visible set handed to the gate,
\* the unit without conditions shows e1 and the one without conditions
\* blocks.
C26_Witness ==
  /\ pc = "done"
  /\ submission = <<>>
  /\ gateArg = <<{}>>
  /\ form.form_logics =
       <<[logicType |-> "ShowFields", conditions |-> <<>>, show |-> <<"e1">>],
         [logicType |-> "PreventSubmit", conditions |-> <<>>]>>
  /\ HasGroups("e1")
  /\ "e1" \in visibleFieldIds
  /\ preventingUnit = 2

====
